---- MODULE Spec2Model ----
(***************************************************************************)
(* Model of the balance-due application (src/app.py): the field           *)
(* extractors, the date parser, the in-memory UPLOAD_STORE and the single *)
(* request handler index().                                                *)
(*                                                                         *)
(* Representation.  Text is modelled by tokens.  A money text is the       *)
(* amount matched by [0-9]{1,3}(,[0-9]{3})*(\.[0-9]{2})? (held in cents)   *)
(* with the characters before and after it.  A date text is a sequence of  *)
(* tokens: numerals, words and separator characters.  The bytes of a       *)
(* document are modelled by what PyMuPDF makes of them (readable or not)   *)
(* and by what each regular expression of src/app.py:20-48 finds first in  *)
(* the normalized text.                                                    *)
(***************************************************************************)
EXTENDS Integers, Sequences, FiniteSets, TLC

\* Largest number of files selected in one upload.
MaxFiles == 3

----------------------------------------------------------------------------
\* Calendar dates (datetime.date): records [y, m, d]; NoDate stands for None.

NoDate == [some |-> FALSE, y |-> 0, m |-> 0, d |-> 0]

SomeDate(y, m, d) == [some |-> TRUE, y |-> y, m |-> m, d |-> d]

IsLeap(y) == (y % 4 = 0) /\ ((y % 100 # 0) \/ (y % 400 = 0))

DaysInMonth(y, m) ==
    IF m \in {4, 6, 9, 11} THEN 30
    ELSE IF m = 2 THEN (IF IsLeap(y) THEN 29 ELSE 28)
    ELSE 31

\* datetime(year, month, day).date(), None where the constructor raises ValueError.
MakeDate(y, m, d) ==
    IF /\ y >= 1 /\ y <= 9999
       /\ m >= 1 /\ m <= 12
       /\ d >= 1 /\ d <= DaysInMonth(y, m)
    THEN SomeDate(y, m, d)
    ELSE NoDate

\* a < b on two dates
DateLT(a, b) ==
    \/ a.y < b.y
    \/ a.y = b.y /\ a.m < b.m
    \/ a.y = b.y /\ a.m = b.m /\ a.d < b.d

\* a <= b on two dates
DateLE(a, b) == ~DateLT(b, a)

----------------------------------------------------------------------------
\* Money texts and signed_money_to_float.

Money(pre, amt, post) == [pre |-> pre, amt |-> amt, post |-> post]

\* s with every occurrence of character c removed (str.replace(c, ""))
RECURSIVE Without(_, _)
Without(s, c) ==
    IF s = <<>> THEN <<>>
    ELSE IF Head(s) = c THEN Without(Tail(s), c)
    ELSE <<Head(s)>> \o Without(Tail(s), c)

Front(s) == SubSeq(s, 1, Len(s) - 1)

\* float(s): the text is a number iff nothing follows the digits and at most
\* one sign precedes them; otherwise ValueError.
FloatOf(s) ==
    IF s.post = <<>> /\ s.pre \in {<<>>, <<"+">>}
    THEN [some |-> TRUE, raised |-> FALSE, v |-> s.amt]
    ELSE IF s.post = <<>> /\ s.pre = <<"-">>
    THEN [some |-> TRUE, raised |-> FALSE, v |-> 0 - s.amt]
    ELSE [some |-> FALSE, raised |-> TRUE, v |-> 0]

signed_money_to_float(s0) ==
    LET s1 == IF s0.pre # <<>> /\ Head(s0.pre) = "("
                 /\ s0.post # <<>> /\ s0.post[Len(s0.post)] = ")"
              THEN Money(<<"-">> \o Tail(s0.pre), s0.amt, Front(s0.post))
              ELSE s0
        s2 == Money(Without(s1.pre, "$"), s1.amt, Without(s1.post, "$"))
    IN  FloatOf(s2)

----------------------------------------------------------------------------
\* Date texts typed by the user or assembled by the page: token sequences.

Num(n) == [n |-> n, k |-> "num", w |-> ""]

Word(w) == [n |-> 0, k |-> "word", w |-> w]

Sep(c) == [n |-> 0, k |-> "sep", w |-> c]

\* a.lower()[:3] on the words of the model's vocabulary
Lower3(w) ==
    CASE w \in {"December", "dec", "Dec", "DECEMBER"} -> "dec"
      [] w \in {"February", "feb", "Feb"} -> "feb"
      [] w \in {"November", "nov", "Nov"} -> "nov"
      [] w \in {"Blorf"} -> "blo"
      [] OTHER -> "???"

\* MONTH_MAP.get(key, 0) for the three-letter keys a.lower()[:3] can produce
MONTH_MAP(key) ==
    CASE key = "jan" -> 1 [] key = "feb" -> 2 [] key = "mar" -> 3
      [] key = "apr" -> 4 [] key = "may" -> 5 [] key = "jun" -> 6
      [] key = "jul" -> 7 [] key = "aug" -> 8 [] key = "sep" -> 9
      [] key = "oct" -> 10 [] key = "nov" -> 11 [] key = "dec" -> 12
      [] OTHER -> 0

IsSpace(t) == t = Sep(" ")

\* str.strip(): leading and trailing blanks removed
RECURSIVE LStrip(_)
LStrip(s) == IF s # <<>> /\ IsSpace(Head(s)) THEN LStrip(Tail(s)) ELSE s

RECURSIVE RStrip(_)
RStrip(s) == IF s # <<>> /\ IsSpace(s[Len(s)]) THEN RStrip(Front(s)) ELSE s

Strip(s) == RStrip(LStrip(s))

\* str.replace(old, new) on single characters
RECURSIVE Replace(_, _, _)
Replace(s, old, new) ==
    IF s = <<>> THEN <<>>
    ELSE <<IF Head(s) = old THEN new ELSE Head(s)>> \o Replace(Tail(s), old, new)

\* str.split(c): the pieces between the occurrences of c, empty pieces included
RECURSIVE SplitAt(_, _, _)
SplitAt(s, c, cur) ==
    IF s = <<>> THEN <<cur>>
    ELSE IF Head(s) = c THEN <<cur>> \o SplitAt(Tail(s), c, <<>>)
    ELSE SplitAt(Tail(s), c, Append(cur, Head(s)))

Split(s, c) == SplitAt(s, c, <<>>)

\* the pieces of ps that are not empty once stripped, each stripped
RECURSIVE NonEmptyStripped(_)
NonEmptyStripped(ps) ==
    IF ps = <<>> THEN <<>>
    ELSE (IF Strip(Head(ps)) # <<>> THEN <<Strip(Head(ps))>> ELSE <<>>)
         \o NonEmptyStripped(Tail(ps))

\* int(p): a numeral, with an optional sign; ValueError otherwise
IntOf(p) ==
    IF Len(p) = 1 /\ p[1].k = "num" THEN [v |-> p[1].n, ok |-> TRUE]
    ELSE IF Len(p) = 2 /\ p[1] = Sep("-") /\ p[2].k = "num"
    THEN [v |-> 0 - p[2].n, ok |-> TRUE]
    ELSE IF Len(p) = 2 /\ p[1] = Sep("+") /\ p[2].k = "num"
    THEN [v |-> p[2].n, ok |-> TRUE]
    ELSE [v |-> 0, ok |-> FALSE]

\* MONTH_MAP.get(p.lower()[:3], 0) on a piece of text
MonthOfText(p) ==
    IF Len(p) = 1 /\ p[1].k = "word" THEN MONTH_MAP(Lower3(p[1].w)) ELSE 0

TwoDigitYear(y) == IF y < 100 THEN 2000 + y ELSE y

\* the branch of parse_user_date taken when the text holds "/" and splits in three
SlashDate(parts) ==
    LET a == parts[1]
        b == parts[2]
        c == parts[3]
        month == IF IntOf(a).ok THEN IntOf(a).v ELSE MonthOfText(a)
    IN  IF ~IntOf(b).ok \/ ~IntOf(c).ok THEN NoDate
        ELSE MakeDate(TwoDigitYear(IntOf(c).v), month, IntOf(b).v)

\* the worded branch of parse_user_date
WordedDate(raw) ==
    LET parts == NonEmptyStripped(Split(Strip(Replace(raw, Sep(","), Sep(" "))), Sep(" ")))
    IN  IF Len(parts) >= 3
        THEN IF IntOf(parts[2]).ok /\ IntOf(parts[3]).ok
             THEN MakeDate(TwoDigitYear(IntOf(parts[3]).v), MonthOfText(parts[1]),
                           IntOf(parts[2]).v)
             ELSE NoDate
        ELSE NoDate

\* lines 792-835 on a text s
ParseText(s) ==
    LET raw == Strip(s)
        parts == NonEmptyStripped(Split(Replace(raw, Sep("-"), Sep("/")), Sep("/")))
    IN  IF raw = <<>> THEN NoDate
        ELSE IF (\E i \in 1..Len(raw) : raw[i] = Sep("/")) /\ Len(parts) = 3
        THEN SlashDate(parts)
        ELSE WordedDate(raw)

\* range texts a user may enter
Feb1 == <<Num(2), Sep("/"), Num(1), Sep("/"), Num(24)>>

Nov30 == <<Num(11), Sep("/"), Num(30), Sep("/"), Num(24)>>

Dec1Worded == <<Word("December"), Sep(" "), Num(1), Sep(","), Sep(" "), Num(2024)>>

Dec31Long == <<Num(12), Sep("/"), Num(31), Sep("/"), Num(2024)>>

NoSuchDay == <<Num(13), Sep("/"), Num(40), Sep("/"), Num(99)>>

Feb1Dashed == <<Num(2), Sep("-"), Num(1), Sep("-"), Num(24)>>

\* the (range_start, range_end) pairs of the filter requests: in order, reversed,
\* worded, with a start that is no calendar date, with the end left empty, and
\* with the start written with dashes
RangePairs ==
    { <<Feb1, Nov30>>, <<Nov30, Feb1>>, <<Dec1Worded, Dec31Long>>,
      <<NoSuchDay, Nov30>>, <<Feb1, <<>> >>, <<Feb1Dashed, Nov30>> }

\* the pairs sent together with files: one that parses and one that does not
DirectRanges == { <<Feb1, Nov30>>, <<NoSuchDay, Nov30>> }

\* parse_user_date is a pure function of its text: its value on each range text
\* of the requests, computed once
ParsedRangeTexts ==
    [s \in {p[1] : p \in RangePairs} \cup {p[2] : p \in RangePairs} |-> ParseText(s)]

parse_user_date(s) ==
    IF s \in DOMAIN ParsedRangeTexts THEN ParsedRangeTexts[s] ELSE ParseText(s)

----------------------------------------------------------------------------
\* Documents.  bytes.readable says whether fitz.open can read the bytes; the
\* other fields are what the regular expressions find in the extracted text.

\* a pickup text matched by (?P<pickup>\d{2}/\d{2}/\d{2})
Pickup(mm, dd, yy) == [mm |-> mm, dd |-> dd, yy |-> yy]

\* BALANCE_DUE_REGEX: its first match's groups, or no match
NoBalance ==
    [found |-> FALSE, paren_open |-> FALSE, sign |-> FALSE, amount |-> 0,
     paren_close |-> FALSE]

Balance(po, sg, amt, pc) ==
    [found |-> TRUE, paren_open |-> po, sign |-> sg, amount |-> amt, paren_close |-> pc]

\* SUBTOTAL_EMPTY_LOADED_REGEX: groups 1 and 2 of its first match, or no match
NoMiles == [found |-> FALSE, empty |-> 0, loaded |-> 0]

Miles(e, l) == [found |-> TRUE, empty |-> e, loaded |-> l]

\* TOLLS_SUBTOTAL_REGEX and DEDUCTIONS_SUBTOTAL_REGEX: group 1 of the first match
NoSubtotal == [found |-> FALSE, text |-> Money(<<>>, 0, <<>>)]

Subtotal(pre, amt, post) == [found |-> TRUE, text |-> Money(pre, amt, post)]

Bytes(readable, pickups, balance, miles, tolls, deductions) ==
    [readable |-> readable, pickups |-> pickups, balance |-> balance, miles |-> miles,
     tolls |-> tolls, deductions |-> deductions]

Doc(name, bytes) == [bytes |-> bytes, name |-> name]

\* The documents a user may select, in the order the file dialog lists them.
\* A list of documents (selected files, a list of the store) holds each document
\* {"name": ..., "bytes": ...} by its position in DocPool.
DocPool ==
    << Doc("jan.pdf", Bytes(TRUE, <<Pickup(1, 1, 24)>>,
                            Balance(FALSE, FALSE, 123456, FALSE), Miles(524, 2427),
                            Subtotal(<<"-", "$">>, 12455, <<>>),
                            Subtotal(<<"(", "$">>, 300, <<")">>))),
       Doc("jun.pdf", Bytes(TRUE, <<Pickup(6, 15, 24), Pickup(6, 20, 24)>>,
                            Balance(TRUE, FALSE, 4500, TRUE), NoMiles,
                            Subtotal(<<"(">>, 4500, <<>>),
                            Subtotal(<<"(", "-", "$">>, 700, <<")">>))),
       Doc("dec.pdf", Bytes(TRUE, <<Pickup(12, 31, 24)>>,
                            Balance(TRUE, TRUE, 4500, TRUE), Miles(10, 20),
                            NoSubtotal, NoSubtotal)),
       Doc("nodate.pdf", Bytes(TRUE, <<>>,
                            Balance(FALSE, TRUE, 4500, FALSE), Miles(1, 2),
                            Subtotal(<<"$">>, 1000, <<>>), Subtotal(<<>>, 250, <<>>))),
       Doc("baddate.pdf", Bytes(TRUE, <<Pickup(13, 40, 99), Pickup(6, 15, 24)>>,
                            NoBalance, NoMiles, NoSubtotal, Subtotal(<<"-">>, 100, <<>>))),
       Doc("scan.pdf", Bytes(FALSE, <<>>, NoBalance, NoMiles, NoSubtotal, NoSubtotal)) >>

\* the dictionary {"name": ..., "bytes": ...} an entry of a list stands for
Item(i) == DocPool[i]

\* extract_text_from_bytes: raises when PyMuPDF cannot open the bytes
extract_text_from_bytes(bytes) == [raised |-> ~bytes.readable, text |-> bytes]

\* the outcome of an extractor: it raised, or returned None, or returned v
Raised == [some |-> FALSE, raised |-> TRUE, v |-> 0]

None == [some |-> FALSE, raised |-> FALSE, v |-> 0]

Some(v) == [some |-> TRUE, raised |-> FALSE, v |-> v]

extract_pickups_from_bytes(bytes) ==
    LET t == extract_text_from_bytes(bytes)
    IN  IF t.raised THEN [raised |-> TRUE, pickups |-> <<>>]
        ELSE [raised |-> FALSE, pickups |-> t.text.pickups]

\* the display text "first to last", as the pair of its two pickup texts
NoRange ==
    [some |-> FALSE, raised |-> FALSE, first |-> Pickup(0, 0, 0), last |-> Pickup(0, 0, 0)]

extract_pickup_date_range_from_bytes(bytes) ==
    LET p == extract_pickups_from_bytes(bytes)
    IN  IF p.raised THEN [NoRange EXCEPT !.raised = TRUE]
        ELSE IF p.pickups = <<>> THEN NoRange
        ELSE [some |-> TRUE, raised |-> FALSE, first |-> p.pickups[1],
              last |-> p.pickups[Len(p.pickups)]]

\* datetime.strptime(text, "%m/%d/%y").date(), None on ValueError; %y puts
\* 00..68 in 2000..2068 and 69..99 in 1969..1999
StrptimeMDY(p) == MakeDate(IF p.yy <= 68 THEN 2000 + p.yy ELSE 1900 + p.yy, p.mm, p.dd)

\* [raised, date]
extract_first_pickup_date_obj(bytes) ==
    LET p == extract_pickups_from_bytes(bytes)
    IN  IF p.raised THEN [raised |-> TRUE, date |-> NoDate]
        ELSE IF p.pickups = <<>> THEN [raised |-> FALSE, date |-> NoDate]
        ELSE [raised |-> FALSE, date |-> StrptimeMDY(p.pickups[1])]

\* extract_balance_due_from_bytes with the parentheses not read as a sign
extract_balance_due_parens_ignored(bytes) ==
    LET t == extract_text_from_bytes(bytes)
        m == t.text.balance
    IN  IF t.raised THEN Raised
        ELSE IF ~m.found THEN None
        ELSE signed_money_to_float(Money(IF m.sign THEN <<"-">> ELSE <<>>, m.amount, <<>>))

extract_balance_due_from_bytes(bytes) ==
    LET t == extract_text_from_bytes(bytes)
        m == t.text.balance
        s1 == IF m.sign THEN <<"-">> ELSE <<>>
        s2 == IF m.paren_open /\ m.paren_close THEN <<"-">> \o s1 ELSE s1
    IN  IF t.raised THEN Raised
        ELSE IF ~m.found THEN None
        ELSE signed_money_to_float(Money(s2, m.amount, <<>>))

extract_total_miles_from_bytes(bytes) ==
    LET t == extract_text_from_bytes(bytes)
        m == t.text.miles
    IN  IF t.raised THEN Raised
        ELSE IF ~m.found THEN None
        ELSE Some(m.empty + m.loaded)

extract_tolls_subtotal_from_bytes(bytes) ==
    LET t == extract_text_from_bytes(bytes)
        m == t.text.tolls
    IN  IF t.raised THEN Raised
        ELSE IF ~m.found THEN None
        ELSE signed_money_to_float(m.text)

extract_deductions_subtotal_from_bytes(bytes) ==
    LET t == extract_text_from_bytes(bytes)
        m == t.text.deductions
    IN  IF t.raised THEN Raised
        ELSE IF ~m.found THEN None
        ELSE signed_money_to_float(m.text)

----------------------------------------------------------------------------
\* UPLOAD_STORE: a function from the upload ids in use to lists of documents.

\* Put with the new documents added to the list already stored
PutMerging(st, id, docs) ==
    [k \in (DOMAIN st) \cup {id} |->
        IF k = id THEN (IF id \in DOMAIN st THEN st[id] ELSE <<>>) \o docs ELSE st[k]]

\* UPLOAD_STORE[id] = docs
Put(st, id, docs) == [k \in (DOMAIN st) \cup {id} |-> IF k = id THEN docs ELSE st[k]]

\* Delete that empties the list and keeps the key
DeleteEmptying(st, id) == [k \in DOMAIN st |-> IF k = id THEN <<>> ELSE st[k]]

\* del UPLOAD_STORE[id]
Delete(st, id) == [k \in (DOMAIN st) \ {id} |-> st[k]]

\* UPLOAD_STORE.get(upload_id, []) if upload_id else []
StoredOf(st, upload_id) ==
    IF upload_id # "" /\ upload_id \in DOMAIN st THEN st[upload_id] ELSE <<>>

----------------------------------------------------------------------------
\* Requests and responses of index().

Request(method, action, upload_id, removed, range_start, range_end, files) ==
    [upload_id |-> upload_id, method |-> method, action |-> action, removed |-> removed,
     range_start |-> range_start, range_end |-> range_end, files |-> files]

NoResults == [some |-> FALSE, rows |-> <<>>, total |-> 0, missing |-> 0, mode |-> ""]

NoMessage == [removed |-> 0, kind |-> ""]

\* render_template_string(HTML, ...) with the values the template reads
Page(results, upload_id, show_no_files, range_start, range_end, filter_message, filter_ok) ==
    [upload_id |-> upload_id, range_start |-> range_start, range_end |-> range_end,
     results |-> results, show_no_files |-> show_no_files,
     filter_message |-> filter_message, filter_ok |-> filter_ok, status |-> "ok"]

\* an exception left index(): the request fails and no page is rendered
ServerError ==
    [upload_id |-> "", range_start |-> <<>>, range_end |-> <<>>, results |-> NoResults,
     show_no_files |-> FALSE, filter_message |-> NoMessage, filter_ok |-> TRUE,
     status |-> "error"]

\* FilterOne with an undated document treated as out of range
FilterOneFailClosed(item, start_date, end_date) ==
    LET d0 == extract_first_pickup_date_obj(Item(item).bytes)
    IN  IF d0.raised THEN "raised"
        ELSE IF ~d0.date.some THEN "removed"
        ELSE IF DateLE(start_date, d0.date) /\ DateLE(d0.date, end_date) THEN "kept"
        ELSE "removed"

\* the in-range test of the filter loop for one document:
\* "raised", "kept" or "removed"
FilterOne(item, start_date, end_date) ==
    LET d0 == extract_first_pickup_date_obj(Item(item).bytes)
    IN  IF d0.raised THEN "raised"
        ELSE IF ~d0.date.some THEN "kept"
        ELSE IF DateLE(start_date, d0.date) /\ DateLE(d0.date, end_date) THEN "kept"
        ELSE "removed"

\* the filter loop over stored: [raised, kept, removed]
RECURSIVE FilterLoop(_, _, _, _, _)
FilterLoop(stored, start_date, end_date, kept, removed) ==
    IF stored = <<>> THEN [raised |-> FALSE, removed |-> removed, kept |-> kept]
    ELSE LET f == FilterOne(Head(stored), start_date, end_date)
         IN  IF f = "raised" THEN [raised |-> TRUE, removed |-> removed, kept |-> kept]
             ELSE IF f = "kept"
             THEN FilterLoop(Tail(stored), start_date, end_date,
                             Append(kept, Head(stored)), removed)
             ELSE FilterLoop(Tail(stored), start_date, end_date, kept, removed + 1)

\* the extractor an aggregate action selects
ExtractAmount(action, bytes) ==
    IF action = "miles" THEN extract_total_miles_from_bytes(bytes)
    ELSE IF action = "tolls" THEN extract_tolls_subtotal_from_bytes(bytes)
    ELSE IF action = "expenses" THEN extract_deductions_subtotal_from_bytes(bytes)
    ELSE extract_balance_due_from_bytes(bytes)

ModeOf(action) ==
    IF action = "expenses" THEN "expenses"
    ELSE IF action = "tolls" THEN "tolls"
    ELSE IF action = "miles" THEN "miles"
    ELSE "balance"

\* the aggregation loop over stored: [raised, rows, total, missing]
RECURSIVE AggregateLoop(_, _, _, _, _)
AggregateLoop(stored, action, rows, total, missing) ==
    IF stored = <<>>
    THEN [raised |-> FALSE, rows |-> rows, total |-> total, missing |-> missing]
    ELSE LET item == Item(Head(stored))
             daterange == extract_pickup_date_range_from_bytes(item.bytes)
             amt == ExtractAmount(action, item.bytes)
             row == [amount |-> [some |-> amt.some, v |-> amt.v],
                     name |-> item.name,
                     daterange |-> [some |-> daterange.some, first |-> daterange.first,
                                    last |-> daterange.last]]
         IN  IF daterange.raised \/ amt.raised
             THEN [raised |-> TRUE, rows |-> rows, total |-> total, missing |-> missing]
             ELSE IF ~amt.some
             THEN AggregateLoop(Tail(stored), action, Append(rows, row), total, missing + 1)
             ELSE AggregateLoop(Tail(stored), action, Append(rows, row), total + amt.v,
                                missing)

\* NothingToFilter testing the key, not the stored list
NothingToFilterUnlessKeyed(st, upload_id, stored) ==
    upload_id = "" \/ upload_id \notin DOMAIN st

\* NothingToFilter with the test left out
NothingToFilterNever(st, upload_id, stored) == FALSE

\* line 909: no id, or nothing stored under it
NothingToFilter(st, upload_id, stored) == upload_id = "" \/ stored = <<>>

\* SwapNeeded that never swaps
SwapNever(start_date, end_date) == FALSE

\* line 920: the range was entered end first
SwapNeeded(start_date, end_date) == DateLT(end_date, start_date)

\* lines 936-951: the kept documents written back and the page that reports the
\* removed count, given the outcome of the filter loop
FilterApplied(st, upload_id, loop, range_start_raw, range_end_raw) ==
    IF loop.raised
    THEN [store |-> st, resp |-> ServerError]
    ELSE [store |-> Put(st, upload_id, loop.kept),
          resp |-> Page(NoResults, upload_id, FALSE, range_start_raw, range_end_raw,
                        [removed |-> loop.removed, kind |-> "filtered"], TRUE)]

\* lines 924-951: the filter over stored with the range start_date..end_date
FilterRange(st, upload_id, stored, start_date, end_date, range_start_raw, range_end_raw) ==
    FilterApplied(st, upload_id, FilterLoop(stored, start_date, end_date, <<>>, 0),
                  range_start_raw, range_end_raw)

\* lines 916-951: the filter_dates branch once the two range texts are parsed
FilterParsed(st, r, upload_id, stored, start_date, end_date) ==
    IF ~start_date.some \/ ~end_date.some
    THEN [store |-> st,
          resp |-> Page(NoResults, upload_id, FALSE, r.range_start, r.range_end,
                        [removed |-> 0, kind |-> "need_both_dates"], FALSE)]
    ELSE IF SwapNeeded(start_date, end_date)
    THEN FilterRange(st, upload_id, stored, end_date, start_date,
                     r.range_end, r.range_start)
    ELSE FilterRange(st, upload_id, stored, start_date, end_date,
                     r.range_start, r.range_end)

\* lines 908-951: the filter_dates branch, on the store st after the upload
FilterDates(st, r, upload_id, stored) ==
    IF NothingToFilter(st, upload_id, stored)
    THEN [store |-> st,
          resp |-> Page(NoResults, upload_id, FALSE, r.range_start, r.range_end,
                        [removed |-> 0, kind |-> "no_stored_files"], FALSE)]
    ELSE FilterParsed(st, r, upload_id, stored,
                      parse_user_date(r.range_start), parse_user_date(r.range_end))

\* Aggregate that drops the batch it has reported on
AggregateConsuming(st, r, upload_id, stored) ==
    LET loop == AggregateLoop(stored, r.action, <<>>, 0, 0)
    IN  IF loop.raised
        THEN [store |-> st, resp |-> ServerError]
        ELSE [store |-> Put(st, upload_id, <<>>),
              resp |-> Page([some |-> TRUE, rows |-> loop.rows, total |-> loop.total,
                             missing |-> loop.missing, mode |-> ModeOf(r.action)],
                            upload_id, FALSE, r.range_start, r.range_end, NoMessage, TRUE)]

\* lines 953-1008: the aggregation and the page that shows it
Aggregate(st, r, upload_id, stored) ==
    LET loop == AggregateLoop(stored, r.action, <<>>, 0, 0)
    IN  IF loop.raised
        THEN [store |-> st, resp |-> ServerError]
        ELSE [store |-> st,
              resp |-> Page([some |-> TRUE, rows |-> loop.rows, total |-> loop.total,
                             missing |-> loop.missing, mode |-> ModeOf(r.action)],
                            upload_id, FALSE, r.range_start, r.range_end, NoMessage, TRUE)]

\* NothingToShow with the early return left out
NothingToShowNever(stored, selected_files, action) == FALSE

\* line 893: nothing stored, nothing selected and no filter asked for
NothingToShow(stored, selected_files, action) ==
    stored = <<>> /\ selected_files = <<>> /\ action # "filter_dates"

\* index(): the store and the response a request leaves, given the store st it
\* finds and the identifier uuid4 would mint
index(st, r, fresh) ==
    LET selected_files == r.files
        upload_id == IF selected_files # <<>> /\ r.upload_id = "" THEN fresh
                     ELSE r.upload_id
        st1 == IF selected_files # <<>> THEN Put(st, upload_id, selected_files) ELSE st
        stored == StoredOf(st1, upload_id)
    IN  IF r.method = "GET"
        THEN [store |-> st,
              resp |-> Page(NoResults, "", FALSE, <<>>, <<>>, NoMessage, TRUE)]
        ELSE IF r.removed
        THEN [store |-> IF upload_id # "" /\ upload_id \in DOMAIN st1
                        THEN Delete(st1, upload_id) ELSE st1,
              resp |-> Page(NoResults, "", TRUE, <<>>, <<>>, NoMessage, TRUE)]
        ELSE IF NothingToShow(stored, selected_files, r.action)
        THEN [store |-> st1,
              resp |-> Page(NoResults, upload_id, FALSE, r.range_start, r.range_end,
                            NoMessage, TRUE)]
        ELSE IF r.action = "filter_dates"
        THEN FilterDates(st1, r, upload_id, stored)
        ELSE Aggregate(st1, r, upload_id, stored)

----------------------------------------------------------------------------
\* Inputs.

\* upload ids: what uuid4 mints and what a client may send
IdPool == {"u1", "u2"}

AggregateActions == {"balance", "miles", "tolls", "expenses"}

\* the buttons pressed together with a new selection of files
UploadActions == {"balance", "tolls"}

\* the selections of at most MaxFiles adjacent documents of the file dialog
Selections ==
    { [k \in 1..n |-> i + k - 1] :
        <<i, n>> \in { p \in (1..Len(DocPool)) \X (1..MaxFiles) :
                         p[1] + p[2] - 1 <= Len(DocPool) } }

----------------------------------------------------------------------------
\* State: the store, the last request handled, its response (the page the
\* browser now shows), what sent the request, whether the id the request
\* carried was a key of the store when it arrived, and whether the request was
\* the same as the one handled before it.  pending is a filter request another
\* thread of the server is handling, with the list it read at line 891, between
\* that read and its write at line 936.

VARIABLES store, req, resp, via, hadBatch, repeated, pending

vars == <<store, req, resp, via, hadBatch, repeated, pending>>

NoRequest == Request("", "", "", FALSE, <<>>, <<>>, <<>>)

NoResponse == [ServerError EXCEPT !.status = "none"]

\* no filter request is between its read and its write
NoPending == [some |-> FALSE, stored |-> <<>>, r |-> NoRequest]

Init ==
    /\ store = << >>
    /\ req = NoRequest
    /\ resp = NoResponse
    /\ via = "start"
    /\ hadBatch = FALSE
    /\ repeated = FALSE
    /\ pending = NoPending

\* what index() leaves: the store as it now is and the response sent
Deliver(out) == store' = out.store /\ resp' = out.resp

\* one request handled by index(), whole
Handle(r) ==
    \E fresh \in IdPool :
        /\ (r.files # <<>> /\ r.upload_id = "") => fresh \notin DOMAIN store
        /\ (r.files = <<>> \/ r.upload_id # "") => fresh = CHOOSE u \in IdPool : TRUE
        /\ Deliver(index(store, r, fresh))
        /\ req' = r
        /\ hadBatch' = (r.upload_id \in DOMAIN store)
        /\ repeated' = (r = req)
        /\ UNCHANGED pending

\* the first load of the page
Get ==
    /\ Handle(Request("GET", "", "", FALSE, <<>>, <<>>, <<>>))
    /\ via' = "get"

\* mainForm submitted by one of its four buttons with files selected
Upload ==
    \E id \in IdPool \cup {""}, files \in Selections, a \in UploadActions :
        /\ Handle(Request("POST", a, id, FALSE, <<>>, <<>>, files))
        /\ via' = "mainForm"

\* mainForm submitted by one of its four buttons with no file selected
Recompute ==
    \E id \in IdPool \cup {""}, a \in AggregateActions :
        /\ Handle(Request("POST", a, id, FALSE, <<>>, <<>>, <<>>))
        /\ via' = "mainForm"

\* filterForm submitted
Filter ==
    \E id \in IdPool \cup {""}, range \in RangePairs :
        /\ Handle(Request("POST", "filter_dates", id, FALSE, range[1], range[2], <<>>))
        /\ via' = "filterForm"

\* the click handler of removeBtn (lines 510-523): it empties the file input and
\* the uploadId field, sets the removed flag and submits mainForm; no button
\* names the action, so index() reads its default
RemoveClick ==
    /\ resp.status = "ok"
    /\ Handle(Request("POST", "balance", "", TRUE, resp.range_start, resp.range_end, <<>>))
    /\ via' = "removeBtn"

\* a POST built by a client other than the page: files together with
\* filter_dates
DirectFilter ==
    \E id \in IdPool \cup {""}, files \in Selections, range \in DirectRanges :
        /\ Handle(Request("POST", "filter_dates", id, FALSE, range[1], range[2], files))
        /\ via' = "direct"

\* a POST built by a client other than the page: the removed flag together with
\* an upload id, with or without files
DirectRemove ==
    \E id \in IdPool \cup {""}, files \in Selections \cup {<<>>} :
        /\ Len(files) <= 1
        /\ Handle(Request("POST", "balance", id, TRUE, <<>>, <<>>, files))
        /\ via' = "direct"

\* The server handles requests in threads (app.run, line 1010): a filter request
\* reads the stored list (line 891), works through it (lines 924-934) and writes
\* the kept documents back (line 936), and other requests run in between.

\* the id and the range of the filter requests followed through their two steps
ThreadIds == {"u1"}

ThreadRanges == { <<Feb1, Nov30>> }

\* a filter request that can be applied reads the stored list (lines 855-922)
FilterRead ==
    /\ ~pending.some
    /\ \E id \in ThreadIds, range \in ThreadRanges :
          /\ ~NothingToFilter(store, id, StoredOf(store, id))
          /\ parse_user_date(range[1]).some /\ parse_user_date(range[2]).some
          /\ pending' =
                [some |-> TRUE,
                 stored |-> StoredOf(store, id),
                 r |-> Request("POST", "filter_dates", id, FALSE, range[1], range[2], <<>>)]
    /\ UNCHANGED <<store, req, resp, via, hadBatch, repeated>>

\* the pending filter request filters the list it read and writes what it kept
\* to the store as it now is (lines 924-951)
FilterWrite ==
    /\ pending.some
    /\ Deliver(FilterParsed(store, pending.r, pending.r.upload_id, pending.stored,
                            parse_user_date(pending.r.range_start),
                            parse_user_date(pending.r.range_end)))
    /\ req' = pending.r
    /\ via' = "filterForm"
    /\ hadBatch' = (pending.r.upload_id \in DOMAIN store)
    /\ repeated' = (pending.r = req)
    /\ pending' = NoPending

\* an upload that replaces the list under the id, handled whole by its thread
ThreadedUpload ==
    \E id \in ThreadIds, files \in Selections :
        /\ Handle(Request("POST", "balance", id, FALSE, <<>>, <<>>, files))
        /\ via' = "mainForm"

Next == Get \/ Upload \/ Recompute \/ Filter \/ RemoveClick \/ DirectFilter \/ DirectRemove

Spec == Init /\ [][Next]_vars

NextThreaded == ThreadedUpload \/ FilterRead \/ FilterWrite

SpecThreaded == Init /\ [][NextThreaded]_vars

----------------------------------------------------------------------------
\* Notions the properties are stated with.

Elems(s) == {s[i] : i \in 1..Len(s)}

\* s is t with some entries left out, the order kept (lists without repeats)
IsSublist(s, t) == SelectSeq(t, LAMBDA x : x \in Elems(s)) = s

\* no first pickup date can be had from document i: unreadable, no load row,
\* or a first pickup text that is no calendar date
Undated(i) ==
    LET b == DocPool[i].bytes
    IN  \/ ~b.readable
        \/ b.pickups = <<>>
        \/ ~StrptimeMDY(b.pickups[1]).some

\* the first pickup date of document i lies in lo..hi, both ends included
InRange(i, lo, hi) ==
    LET d == StrptimeMDY(DocPool[i].bytes.pickups[1])
    IN  DateLE(lo, d) /\ DateLE(d, hi)

\* the earlier and the later of two dates
Earlier(a, b) == IF DateLT(b, a) THEN b ELSE a

Later(a, b) == IF DateLT(b, a) THEN a ELSE b

\* the step handles a POST that selects no new files and does not remove
PlainPost == req'.method = "POST" /\ ~req'.removed /\ req'.files = <<>>

\* the last request was a POST that selected no new files and did not remove
WasPlainPost == req.method = "POST" /\ ~req.removed /\ req.files = <<>>

----------------------------------------------------------------------------
\* C1: a filter_dates request on a non-empty stored batch with two valid range
\* dates leaves under the id exactly the documents, in order, whose first pickup
\* date is absent or within the range, and reports (length before) - (length
\* after) as the removed count.
C1_FilterKeepsExactlyInRange ==
    [][ ( /\ PlainPost
          /\ req'.action = "filter_dates"
          /\ StoredOf(store, req'.upload_id) # <<>>
          /\ parse_user_date(req'.range_start).some
          /\ parse_user_date(req'.range_end).some )
        => LET id == req'.upload_id
               before == StoredOf(store, id)
               a == parse_user_date(req'.range_start)
               b == parse_user_date(req'.range_end)
               after == SelectSeq(before,
                            LAMBDA i : Undated(i) \/ InRange(i, Earlier(a, b), Later(a, b)))
           IN  /\ id \in DOMAIN store'
               /\ store'[id] = after
               /\ resp'.status = "ok"
               /\ resp'.filter_message =
                      [removed |-> Len(before) - Len(after), kind |-> "filtered"]
      ]_vars

\* C2: no request that neither uploads nor removes takes an undated document
\* out of its batch: under every id the undated documents stay, in order.
C2_UndatedDocumentsStay ==
    [][ PlainPost
        => \A id \in DOMAIN store :
              /\ id \in DOMAIN store'
              /\ SelectSeq(store'[id], Undated) = SelectSeq(store[id], Undated)
      ]_vars

\* C2 witness: a filter was applied and removed a document, and the batch still
\* holds a document with no load row and one whose pickup text is no date.
C2_Witness ==
    /\ WasPlainPost
    /\ resp.filter_message.kind = "filtered"
    /\ resp.filter_message.removed >= 1
    /\ \E i, j \in Elems(store[req.upload_id]) :
          /\ DocPool[i].bytes.readable /\ DocPool[i].bytes.pickups = <<>>
          /\ DocPool[j].bytes.readable /\ DocPool[j].bytes.pickups # <<>> /\ Undated(j)

\* C3 as stated: a request with new files under an existing id leaves under
\* that id exactly the new files, and every other id as it was.
C3_UploadLeavesExactlyTheNewFiles ==
    [][ (req'.method = "POST" /\ req'.files # <<>> /\ req'.upload_id \in DOMAIN store)
        => /\ req'.upload_id \in DOMAIN store'
           /\ store'[req'.upload_id] = req'.files
           /\ \A k \in (DOMAIN store) \ {req'.upload_id} :
                 k \in DOMAIN store' /\ store'[k] = store[k]
      ]_vars

\* C3 as amended: a request with new files under an existing id leaves every
\* other id as it was, and under that id: no entry when the request carries the
\* removed flag; a sublist of the new files, in upload order, when its action is
\* filter_dates; exactly the new files otherwise.  Nothing of the old list stays
\* unless it was uploaded again.
C3_UploadReplacesThenRemovesOrFilters ==
    [][ (req'.method = "POST" /\ req'.files # <<>> /\ req'.upload_id \in DOMAIN store)
        => LET id == req'.upload_id
           IN  /\ \A k \in (DOMAIN store) \ {id} :
                     k \in DOMAIN store' /\ store'[k] = store[k]
               /\ DOMAIN store' \subseteq DOMAIN store
               /\ IF req'.removed THEN id \notin DOMAIN store'
                  ELSE /\ id \in DOMAIN store'
                       /\ IF req'.action = "filter_dates"
                          THEN IsSublist(store'[id], req'.files)
                          ELSE store'[id] = req'.files
      ]_vars

\* C3 witness: an upload under an id that held other documents has replaced them.
C3_Witness ==
    /\ req.method = "POST" /\ req.files # <<>> /\ ~req.removed
    /\ req.action # "filter_dates"
    /\ via = "mainForm"
    /\ hadBatch
    /\ req.upload_id \in DOMAIN store
    /\ store[req.upload_id] = req.files
    /\ Len(req.files) >= 2
    /\ resp.status = "ok"
    /\ resp.upload_id = req.upload_id
    /\ \E k \in DOMAIN store : k # req.upload_id /\ store[k] # <<>>

\* the batch the last request aggregated: the list under the id it carried
BatchOfLast == StoredOf(store, req.upload_id)

\* the last request asked for an aggregate over a stored, non-empty batch
WasAggregateOverBatch ==
    /\ req.method = "POST" /\ ~req.removed
    /\ req.action \in AggregateActions
    /\ req.upload_id # ""
    /\ BatchOfLast # <<>>

\* the sum of the present amounts of rows
RECURSIVE SumPresent(_)
SumPresent(rows) ==
    IF rows = <<>> THEN 0
    ELSE (IF Head(rows).amount.some THEN Head(rows).amount.v ELSE 0) + SumPresent(Tail(rows))

\* C4: every aggregate request over a stored batch yields a report with one row
\* per stored document in stored order, missing_count the number of rows with
\* no value, total the sum of the present values, and rows.length equal to
\* missing_count plus the number of rows with a value.
C4_ReportCountsEveryDocument ==
    WasAggregateOverBatch
    => LET rows == resp.results.rows
           absent == {i \in 1..Len(rows) : ~rows[i].amount.some}
           present == {i \in 1..Len(rows) : rows[i].amount.some}
       IN  /\ resp.status = "ok"
           /\ resp.results.some
           /\ Len(rows) = Len(BatchOfLast)
           /\ \A i \in 1..Len(rows) : rows[i].name = DocPool[BatchOfLast[i]].name
           /\ resp.results.missing = Cardinality(absent)
           /\ resp.results.total = SumPresent(rows)
           /\ Len(rows) = resp.results.missing + Cardinality(present)

\* C5: one unreadable document aborts no request: an aggregate over a batch
\* that holds one still returns a row per document, the unreadable document's
\* row with all fields absent and counted as missing, and a filter over such a
\* batch still completes.
C5_UnreadableDocumentIsARow ==
    ( /\ req.method = "POST" /\ ~req.removed /\ req.upload_id # ""
      /\ \E i \in Elems(BatchOfLast) : ~DocPool[i].bytes.readable )
    => /\ resp.status = "ok"
       /\ req.action \in AggregateActions
          => /\ resp.results.some
             /\ Len(resp.results.rows) = Len(BatchOfLast)
             /\ \A i \in 1..Len(BatchOfLast) :
                   ~DocPool[BatchOfLast[i]].bytes.readable
                   => /\ ~resp.results.rows[i].amount.some
                      /\ ~resp.results.rows[i].daterange.some
             /\ resp.results.missing >= 1

\* C6: on a readable document the balance-due, tolls and deductions extractors
\* never raise: an amount text that is no number comes back as None.
C6_MalformedNumberIsNotFound ==
    \A id \in DOMAIN store : \A i \in Elems(store[id]) :
        DocPool[i].bytes.readable
        => /\ ~extract_balance_due_from_bytes(DocPool[i].bytes).raised
           /\ ~extract_tolls_subtotal_from_bytes(DocPool[i].bytes).raised
           /\ ~extract_deductions_subtotal_from_bytes(DocPool[i].bytes).raised

\* C7: after the page's "Remove files" action, the id the page held is no key
\* of the store.
C7_RemoveFilesDeletesTheBatch ==
    [][ (via' = "removeBtn" /\ resp.upload_id # "" /\ resp.upload_id \in DOMAIN store)
        => resp.upload_id \notin DOMAIN store'
      ]_vars

\* the request r with its two range texts exchanged
Exchanged(r) == [r EXCEPT !.range_start = r.range_end, !.range_end = r.range_start]

\* r is a filter request whose two dates are valid and entered end before start
Reversed(r) ==
    /\ r.action = "filter_dates"
    /\ parse_user_date(r.range_start).some
    /\ parse_user_date(r.range_end).some
    /\ DateLT(parse_user_date(r.range_end), parse_user_date(r.range_start))

\* C8 as stated: every filter request with two valid dates, end < start, does
\* what the same request with the dates in order does (the same store, the same
\* page, removed count included), and the page shows the two texts exchanged.
C8_ReversedRangeSameAsOrdered ==
    [][ (PlainPost /\ Reversed(req'))
        => LET ordered == index(store, Exchanged(req'), CHOOSE u \in IdPool : TRUE)
           IN  /\ store' = ordered.store
               /\ resp' = ordered.resp
               /\ resp'.status = "ok"
                  => /\ resp'.range_start = req'.range_end
                     /\ resp'.range_end = req'.range_start
      ]_vars

\* C8 as amended: on a non-empty stored batch, a filter request with two valid
\* dates, end < start, does what the same request with the dates in order does
\* (the same store, the same response, removed count included); when the filter
\* is applied the range texts shown are the entered ones exchanged, start <= end
\* holds of the dates they stand for, and what is kept is what lies between them
\* or is undated.
C8_ReversedRangeIsSwapped ==
    [][ (PlainPost /\ Reversed(req') /\ StoredOf(store, req'.upload_id) # <<>>)
        => LET ordered == index(store, Exchanged(req'), CHOOSE u \in IdPool : TRUE)
               lo == parse_user_date(req'.range_end)
               hi == parse_user_date(req'.range_start)
           IN  /\ store' = ordered.store
               /\ resp' = ordered.resp
               /\ resp'.status = "ok"
                  => /\ resp'.filter_message.kind = "filtered"
                     /\ resp'.range_start = req'.range_end
                     /\ resp'.range_end = req'.range_start
                     /\ DateLE(parse_user_date(resp'.range_start),
                               parse_user_date(resp'.range_end))
                     /\ store'[req'.upload_id] =
                            SelectSeq(store[req'.upload_id],
                                      LAMBDA i : Undated(i) \/ InRange(i, lo, hi))
      ]_vars

\* C8 witness: a reversed range was applied, removed and kept documents, and the
\* page shows the two texts exchanged.
C8_Witness ==
    /\ WasPlainPost /\ Reversed(req)
    /\ resp.filter_message.kind = "filtered"
    /\ resp.filter_message.removed >= 1
    /\ resp.range_start = req.range_end
    /\ resp.range_end = req.range_start
    /\ resp.range_start # resp.range_end
    /\ \E i \in Elems(store[req.upload_id]) : ~Undated(i)

\* the last request asked for an aggregate over an id whose stored list is empty
WasAggregateOverEmpty ==
    /\ WasPlainPost
    /\ req.action \in AggregateActions
    /\ req.upload_id \in DOMAIN store
    /\ store[req.upload_id] = <<>>

\* C9 as stated: an aggregate request against an id whose stored list is empty
\* returns a report with zero rows, total 0 and missing_count 0, and no error.
C9_EmptyBatchGivesEmptyReport ==
    WasAggregateOverEmpty
    => /\ resp.status = "ok"
       /\ resp.results.some
       /\ resp.results.rows = <<>>
       /\ resp.results.total = 0
       /\ resp.results.missing = 0

\* C9 as amended: such a request returns, without error, the page with no
\* report at all: no rows, no total, no missing count, no message; the id and
\* the range texts are echoed.
C9_EmptyBatchGivesNoReport ==
    WasAggregateOverEmpty
    => /\ resp.status = "ok"
       /\ ~resp.results.some
       /\ resp = Page(NoResults, req.upload_id, FALSE, req.range_start, req.range_end,
                      NoMessage, TRUE)

\* C9 witness: an aggregate was asked of an id whose list a filter had emptied.
C9_Witness == WasAggregateOverEmpty /\ resp.status = "ok" /\ via = "mainForm"

\* the POSTs without new files: each aggregate and each filter, under id
PlainRequests(id) ==
    { Request("POST", a, id, FALSE, <<>>, <<>>, <<>>) : a \in AggregateActions }
    \cup { Request("POST", "filter_dates", id, FALSE, p[1], p[2], <<>>) : p \in RangePairs }

\* C10: where an id maps to an empty list, every request without new files gets
\* the response it would get were the id no key of the store.
C10_EmptyListIsNoBatch ==
    \A id \in DOMAIN store :
        store[id] = <<>>
        => \A r \in PlainRequests(id) :
              index(store, r, id).resp = index(Delete(store, id), r, id).resp

\* C10 witness: an id maps to an empty list and a filter was just asked of it.
C10_Witness ==
    /\ WasPlainPost
    /\ req.action = "filter_dates"
    /\ req.upload_id \in DOMAIN store
    /\ store[req.upload_id] = <<>>
    /\ resp.filter_message.kind = "no_stored_files"

----------------------------------------------------------------------------
\* r is a filter request, not a removal, whose two range texts do not both parse
BadRange(r) ==
    ~parse_user_date(r.range_start).some \/ ~parse_user_date(r.range_end).some

\* r, arriving at the store st, is a filter request that cannot be applied: a
\* range text that is no date, or, the request bringing no files of its own, no
\* id or an id with no or an empty list
CannotApply(st, r) ==
    /\ r.method = "POST" /\ ~r.removed /\ r.action = "filter_dates"
    /\ \/ BadRange(r)
       \/ r.files = <<>> /\ (r.upload_id = "" \/ StoredOf(st, r.upload_id) = <<>>)

\* the response reports a failed filter that removed nothing
ReportsFailure(p) ==
    p.status = "ok" /\ ~p.filter_ok /\ p.filter_message.removed = 0 /\ ~p.results.some

\* C11 as stated: a filter_dates request that cannot be applied completes
\* without crashing, reports failure, removes nothing and leaves the whole
\* store unchanged.
C11_UnappliableFilterChangesNothing ==
    [][ CannotApply(store, req') => (ReportsFailure(resp') /\ store' = store) ]_vars

\* C11 as amended: a filter_dates request without new files that cannot be
\* applied completes without crashing, reports failure, removes nothing and
\* leaves the whole store unchanged; one that carries new files and a range
\* text that is no date does the same except that the new files are first
\* stored, whole, under the id of the request (a fresh id when it has none).
C11_UnappliableFilterOnlyStoresUpload ==
    [][ CannotApply(store, req')
        => /\ ReportsFailure(resp')
           /\ IF req'.files = <<>> THEN store' = store
              ELSE /\ store' = Put(store, resp'.upload_id, req'.files)
                   /\ IF req'.upload_id = "" THEN resp'.upload_id \notin DOMAIN store
                      ELSE resp'.upload_id = req'.upload_id
      ]_vars

\* C11 witness: a filter without new files was refused for a range text that is
\* no date, on a batch that holds documents the range would have removed.
C11_Witness ==
    /\ WasPlainPost /\ req.action = "filter_dates"
    /\ req.upload_id \in DOMAIN store
    /\ Len(store[req.upload_id]) >= 2
    /\ BadRange(req)
    /\ resp.filter_message.kind = "need_both_dates"
    /\ ~resp.filter_ok

----------------------------------------------------------------------------
\* r brings new files and asks for an aggregate: it neither removes nor filters
IsUpload(r) ==
    r.method = "POST" /\ r.files # <<>> /\ ~r.removed /\ r.action \in AggregateActions

\* C12: a request with new files and no id stores them under a fresh id that
\* was no key of the store, one with an id stores them under that id, and in
\* both cases the caller is returned the id, which maps to the uploaded
\* documents afterwards.
C12_UploadReturnsItsKey ==
    [][ IsUpload(req')
        => /\ resp'.status = "ok"
           /\ IF req'.upload_id = ""
              THEN resp'.upload_id # "" /\ resp'.upload_id \notin DOMAIN store
              ELSE resp'.upload_id = req'.upload_id
           /\ resp'.upload_id \in DOMAIN store'
           /\ store'[resp'.upload_id] = req'.files
      ]_vars

----------------------------------------------------------------------------
\* the forms of the balance-due text of document i the claim speaks of
InParens(i) ==
    LET b == DocPool[i].bytes.balance
    IN  DocPool[i].bytes.readable /\ b.found /\ b.paren_open /\ b.paren_close /\ ~b.sign

WithSign(i) ==
    LET b == DocPool[i].bytes.balance
    IN  DocPool[i].bytes.readable /\ b.found /\ b.sign /\ ~b.paren_open /\ ~b.paren_close

Plain(i) ==
    LET b == DocPool[i].bytes.balance
    IN  DocPool[i].bytes.readable /\ b.found /\ ~b.sign /\ ~b.paren_open /\ ~b.paren_close

\* the amount A of the balance-due text of document i, in cents
AmountOf(i) == DocPool[i].bytes.balance.amount

\* what the claim says of document i: -A for ($A) and for -$A, +A for $A
BalanceAsClaimed(i, v) ==
    /\ InParens(i) => v = Some(0 - AmountOf(i))
    /\ WithSign(i) => v = Some(0 - AmountOf(i))
    /\ Plain(i) => v = Some(AmountOf(i))

\* C13: the balance-due extractor gives -A for "Balance due: ($A)" and for
\* "Balance due: -$A" and +A for "Balance due: $A": of every stored document,
\* and in every row of a balance report.
C13_ParenthesesNegateAsSignDoes ==
    /\ \A id \in DOMAIN store : \A i \in Elems(store[id]) :
          (InParens(i) \/ WithSign(i) \/ Plain(i))
          => BalanceAsClaimed(i, extract_balance_due_from_bytes(DocPool[i].bytes))
    /\ (resp.status = "ok" /\ resp.results.some /\ resp.results.mode = "balance")
       => \A k \in 1..Len(resp.results.rows) :
             LET a == resp.results.rows[k].amount
             IN  BalanceAsClaimed(StoredOf(store, resp.upload_id)[k],
                                  [some |-> a.some, raised |-> FALSE, v |-> a.v])

\* C13 witness: a balance report shows -45.00 for the document with ($45.00)
\* and +1,234.56 for the one with $1,234.56, and another batch holds the
\* document with -$45.00.
C13_Witness ==
    /\ resp.status = "ok" /\ resp.results.some /\ resp.results.mode = "balance"
    /\ \E k, l \in 1..Len(resp.results.rows) :
          /\ InParens(StoredOf(store, resp.upload_id)[k])
          /\ resp.results.rows[k].amount = [some |-> TRUE, v |-> 0 - 4500]
          /\ Plain(StoredOf(store, resp.upload_id)[l])
          /\ resp.results.rows[l].amount = [some |-> TRUE, v |-> 123456]
    /\ \E id \in DOMAIN store : \E i \in Elems(store[id]) :
          /\ WithSign(i)
          /\ extract_balance_due_from_bytes(DocPool[i].bytes) = Some(0 - 4500)

----------------------------------------------------------------------------
\* the text t with every dash written as a slash
Slashed(t) == Replace(t, Sep("-"), Sep("/"))

\* C14: a dash-delimited triplet "A-B-C" parses to what the slash-delimited
\* "A/B/C" parses to: of each range text a filter request carries, the parser
\* gives the same result (the same date, or none) as of the text with its
\* dashes written as slashes.
C14_DashParsesAsSlash ==
    (req.method = "POST" /\ req.action = "filter_dates")
    => /\ parse_user_date(req.range_start) = parse_user_date(Slashed(req.range_start))
       /\ parse_user_date(req.range_end) = parse_user_date(Slashed(req.range_end))

----------------------------------------------------------------------------
\* the step handles an aggregate request without new files
PlainAggregate == PlainPost /\ req'.action \in AggregateActions

\* C15: an aggregate request without new files leaves the store unchanged, and
\* the same aggregate request issued twice in a row gets the same response:
\* the same rows in the same order, the same total, the same missing count.
\* The report of an aggregate over a batch is also the report the upload that
\* stored the batch was answered with, when the field kind is the same.
C15_AggregateIsRepeatableAndReadOnly ==
    [][ PlainAggregate
        => /\ store' = store
           /\ req' = req => resp' = resp
           /\ ( /\ req.method = "POST" /\ ~req.removed /\ req.action = req'.action
                /\ resp.status = "ok" /\ resp.upload_id = req'.upload_id )
              => (resp'.status = "ok" /\ resp'.results = resp.results)
      ]_vars

\* C15 witness: the same aggregate request was issued twice in a row over a
\* batch of several documents, one of them without a value, and was answered
\* with a report.
C15_Witness ==
    /\ repeated /\ WasPlainPost /\ req.action \in AggregateActions
    /\ resp.status = "ok" /\ resp.results.some
    /\ Len(resp.results.rows) >= 2
    /\ resp.results.missing >= 1
    /\ resp.results.missing < Len(resp.results.rows)

----------------------------------------------------------------------------
\* C16: after a request with the removed flag and id X, X is no key of the
\* store and every other entry is as it was; no key is added, so new files sent
\* along leave no entry behind; when X was no key and no files were sent the
\* store is unchanged; and the same remove request issued again changes
\* nothing.
C16_RemoveDeletesAndIsIdempotent ==
    [][ (req'.method = "POST" /\ req'.removed)
        => LET X == req'.upload_id
           IN  /\ resp'.status = "ok"
               /\ X \notin DOMAIN store'
               /\ \A k \in (DOMAIN store) \ {X} :
                     k \in DOMAIN store' /\ store'[k] = store[k]
               /\ DOMAIN store' \subseteq DOMAIN store
               /\ (X \notin DOMAIN store /\ req'.files = <<>>) => store' = store
               /\ req' = req => store' = store
      ]_vars

\* C16 witness: a remove request that named a stored batch and brought a file
\* of its own has left no entry under its id, and another batch is still stored.
C16_Witness ==
    /\ req.method = "POST" /\ req.removed
    /\ hadBatch
    /\ req.files # <<>>
    /\ req.upload_id \notin DOMAIN store
    /\ resp.show_no_files
    /\ \E k \in DOMAIN store : store[k] # <<>>

----------------------------------------------------------------------------
\* C17: when a filter request and an upload to the same id are interleaved, the
\* list left under the id is the one a serial order of the two would leave: at
\* the write of the filter, the list under the id becomes either the list now
\* stored (the filter first, then what was stored since) or what the filter
\* keeps of the list now stored (the filter last); never a sublist of an older
\* list written over a newer upload.
C17_FilterWriteIsSerializable ==
    [][ (pending.some /\ ~pending'.some)
        => LET id == pending.r.upload_id
               lo == parse_user_date(pending.r.range_start)
               hi == parse_user_date(pending.r.range_end)
               now == StoredOf(store, id)
               kept == SelectSeq(now, LAMBDA i : Undated(i) \/ InRange(i, lo, hi))
           IN  StoredOf(store', id) \in {now, kept}
      ]_vars

====
